---- MODULE Spec2Model ----
(***************************************************************************)
(* A model of licensure's header engine (src/template.rs) and of the exit  *)
(* decision of its command line driver (src/main.rs).                       *)
(*                                                                         *)
(* Strings are sequences of one-character strings, so that replace, split, *)
(* escape and the regular expression match are computed character by       *)
(* character, as the Rust code computes them.                               *)
(***************************************************************************)
EXTENDS Integers, Sequences, FiniteSets, TLC

(***************************************************************************)
(* Bounds of the model.                                                    *)
(***************************************************************************)
\* longest header template, counted in pieces of HeaderPieces
MaxPieces == 2
\* longest license body, counted in pieces of BodyPieces
MaxBodyPieces == 2
\* most files given on the command line
MaxFiles == 2
\* longest author list
MaxAuthors == 3

(***************************************************************************)
(* Text helpers: std::str of Rust, on sequences of characters.             *)
(***************************************************************************)
NL == "\n"
SP == " "

\* s[i..] for a 1-based i
Tail_from(s, i) == SubSeq(s, i, Len(s))

RECURSIVE find_from(_, _, _)
\* str::find: the first index >= i at which pat occurs in s, 0 when none
find_from(s, pat, i) ==
    IF i + Len(pat) - 1 > Len(s) THEN 0
    ELSE IF SubSeq(s, i, i + Len(pat) - 1) = pat THEN i
    ELSE find_from(s, pat, i + 1)

\* str::contains
contains(s, pat) == find_from(s, pat, 1) # 0

RECURSIVE replace(_, _, _)
\* str::replace: every non-overlapping occurrence of from, scanning from the
\* left, becomes to
replace(s, from, to) ==
    LET i == find_from(s, from, 1)
    IN  IF i = 0 THEN s
        ELSE SubSeq(s, 1, i - 1) \o to \o replace(Tail_from(s, i + Len(from)), from, to)

RECURSIVE split(_, _)
\* str::split: the fragments around every non-overlapping occurrence of pat
split(s, pat) ==
    LET i == find_from(s, pat, 1)
    IN  IF i = 0 THEN <<s>>
        ELSE <<SubSeq(s, 1, i - 1)>> \o split(Tail_from(s, i + Len(pat)), pat)

RECURSIVE join(_, _)
\* [String]::join
join(frags, sep) ==
    IF Len(frags) = 0 THEN <<>>
    ELSE IF Len(frags) = 1 THEN frags[1]
    ELSE frags[1] \o sep \o join(Tail(frags), sep)

\* char::is_whitespace, for the characters of the model
is_whitespace(c) == c \in {SP, NL}

RECURSIVE trim_end(_)
\* str::trim_end
trim_end(s) ==
    IF Len(s) > 0 /\ is_whitespace(s[Len(s)]) THEN trim_end(SubSeq(s, 1, Len(s) - 1))
    ELSE s

RECURSIVE concat(_)
\* the concatenation of a sequence of strings
concat(ss) == IF Len(ss) = 0 THEN <<>> ELSE ss[1] \o concat(Tail(ss))

Digits == {"0", "1", "2", "3", "4", "5", "6", "7", "8", "9"}

(***************************************************************************)
(* CopyrightHolder, Authors and Context.                                   *)
(***************************************************************************)
NoEmail == <<"-none-">>

\* impl Display for CopyrightHolder
CopyrightHolder_to_string(h) ==
    IF h.email # NoEmail THEN h.name \o <<" ", "<">> \o h.email \o <<">">>
    ELSE h.name

RECURSIVE Authors_fmt(_, _)
\* the loop of impl Display for Authors: a is the string built so far
Authors_fmt(authors, a) ==
    IF Len(authors) = 0 THEN a
    ELSE Authors_fmt(Tail(authors),
                     (IF a # <<>> THEN a \o <<",", " ">> ELSE a)
                        \o CopyrightHolder_to_string(Head(authors)))

\* impl Display for Authors
Authors_to_string(authors) == Authors_fmt(authors, <<>>)

\* Context::get_authors
get_authors(context) == Authors_to_string(context.authors)

NoYear == <<"-none-">>

\* Local::now().year(), formatted
CurrentYear == <<"2", "0", "2", "6">>

\* Context::get_year
get_year(context) == IF context.year # NoYear THEN context.year ELSE CurrentYear

(***************************************************************************)
(* Template.                                                               *)
(***************************************************************************)
INTERMEDIATE_YEAR_TOKEN == <<"@", "Y", "R", "@">>

\* a year pattern that takes any four characters
YEAR_RE_any == <<".", ".", ".", ".">>

YEAR_RE == <<"[", "0", "-", "9", "]", "{", "4", "}">>

T_year == <<"[", "y", "e", "a", "r", "]">>
T_name_of_author == <<"[", "n", "a", "m", "e", " ", "o", "f", " ", "a", "u", "t", "h", "o", "r", "]">>
T_ident == <<"[", "i", "d", "e", "n", "t", "]">>
T_yyyy == <<"[", "y", "y", "y", "y", "]">>
T_name_of_copyright_owner == <<"[", "n", "a", "m", "e", " ", "o", "f", " ", "c", "o", "p", "y", "r", "i", "g", "h", "t", " ", "o", "w", "n", "e", "r", "]">>
T_spdx_year == <<"<", "y", "e", "a", "r", ">">>
T_copyright_holders == <<"<", "c", "o", "p", "y", "r", "i", "g", "h", "t", " ", "h", "o", "l", "d", "e", "r", "s", ">">>
T_owner == <<"<", "o", "w", "n", "e", "r", ">">>
T_spdx_name_of_author == <<"<", "n", "a", "m", "e", " ", "o", "f", " ", "a", "u", "t", "h", "o", "r", ">">>
T_spdx_ident == <<"<", "i", "d", "e", "n", "t", ">">>

\* Template::new
Template_new(template, context) ==
    [spdx_template |-> FALSE, content |-> template, context |-> context]

\* Template::set_spdx_template
set_spdx_template(self, yes_or_no) == [self EXCEPT !.spdx_template = yes_or_no]

\* the token selection with <owner> looked for before <copyright holders>
replacement_tokens_owner_first(self) ==
    IF self.spdx_template
    THEN IF contains(self.content, T_name_of_copyright_owner)
         THEN <<T_yyyy, T_name_of_copyright_owner, T_ident>>
         ELSE <<T_spdx_year,
                IF contains(self.content, T_owner) THEN T_owner
                ELSE IF contains(self.content, T_copyright_holders) THEN T_copyright_holders
                ELSE T_spdx_name_of_author,
                T_spdx_ident>>
    ELSE <<T_year, T_name_of_author, T_ident>>

\* Template::replacement_tokens, the triple (year, author, ident) it selects
replacement_tokens(self) ==
    IF self.spdx_template
    THEN IF contains(self.content, T_name_of_copyright_owner)
         THEN <<T_yyyy, T_name_of_copyright_owner, T_ident>>
         ELSE <<T_spdx_year,
                IF contains(self.content, T_copyright_holders) THEN T_copyright_holders
                ELSE IF contains(self.content, T_owner) THEN T_owner
                ELSE T_spdx_name_of_author,
                T_spdx_ident>>
    ELSE <<T_year, T_name_of_author, T_ident>>

RECURSIVE unwrap_regex_from(_, _)
\* Regex::new(r"(?P<char>.)\n").replace_all(templ, "$char "): scanning from
\* the left, a line break that follows a character other than a line break
\* becomes a space; `.` does not match a line break.  i is the index scanned.
unwrap_regex_from(s, i) ==
    IF i > Len(s) THEN <<>>
    ELSE IF i < Len(s) /\ s[i] # NL /\ s[i + 1] = NL
         THEN <<s[i], SP>> \o unwrap_regex_from(s, i + 2)
         ELSE <<s[i]>> \o unwrap_regex_from(s, i + 1)

\* the unwrap replacement written in the body of replacement_tokens
unwrap_regex(s) == unwrap_regex_from(s, 1)

\* crate::utils::remove_column_wrapping: a line break between two characters
\* that are not line breaks becomes one space; a line break next to another
\* line break (an empty line) is kept
remove_column_wrapping(s) ==
    [i \in 1..Len(s) |->
        IF s[i] = NL /\ i > 1 /\ i < Len(s) /\ s[i - 1] # NL /\ s[i + 1] # NL
        THEN SP ELSE s[i]]

\* the reflow done by the regex replacement instead
nowrap_header_text_regex(self) == unwrap_regex(self.content)

\* the let of Template::interpolate: the content after the reflow
nowrap_header_text(self) == remove_column_wrapping(self.content)

\* str::replacen(from, to, 1): only the first occurrence is replaced
replace_first(s, from, to) ==
    LET i == find_from(s, from, 1)
    IN  IF i = 0 THEN s
        ELSE SubSeq(s, 1, i - 1) \o to \o Tail_from(s, i + Len(from))

\* an interpolation that replaces the first occurrence of each token only
interpolate_first(self, context) ==
    LET tokens == replacement_tokens(self)
    IN  replace_first(replace_first(replace_first(nowrap_header_text(self),
                                                  tokens[1], get_year(context)),
                                    tokens[2], get_authors(context)),
                      tokens[3], context.ident)

\* Template::interpolate
interpolate(self, context) ==
    LET tokens == replacement_tokens(self)
    IN  replace(replace(replace(nowrap_header_text(self),
                                tokens[1], get_year(context)),
                        tokens[2], get_authors(context)),
                tokens[3], context.ident)

\* Template::render
render(self) == interpolate(self, self.context)

\* the statements that follow the token selection in the body of
\* replacement_tokens: the unwrap behind unwrap_text and the substitutions.
\* The function's declared result is the token triple, which interpolate
\* destructures, so this text is not what render() returns.
replacement_tokens_templ(self) ==
    LET tokens == replacement_tokens(self)
        templ == IF self.context.unwrap_text THEN unwrap_regex(self.content)
                 ELSE self.content
    IN  replace(replace(replace(templ, tokens[1], get_year(self.context)),
                        tokens[2], get_authors(self.context)),
                tokens[3], self.context.ident)

(***************************************************************************)
(* The comment style (crate::comments): LineComment.                       *)
(***************************************************************************)
NoColumns == 0

RECURSIVE fill_rest(_, _, _)
\* greedy filling of one line: cur is the line being filled, a word that does
\* not fit starts the next line, no word is ever split
fill_rest(words, cur, width) ==
    IF Len(words) = 0 THEN <<cur>>
    ELSE IF Len(cur) + 1 + Len(words[1]) <= width
         THEN fill_rest(Tail(words), cur \o <<SP>> \o words[1], width)
         ELSE <<cur>> \o fill_rest(Tail(words), words[1], width)

\* the lines one line of text is wrapped into
fill_line(line, width) ==
    LET words == split(line, <<SP>>) IN fill_rest(Tail(words), words[1], width)

RECURSIVE fill_lines(_, _)
fill_lines(lines, width) ==
    IF Len(lines) = 0 THEN <<>>
    ELSE fill_line(lines[1], width) \o fill_lines(Tail(lines), width)

\* the text wrapped at width columns
fill(text, width) == join(fill_lines(split(text, <<NL>>), width), <<NL>>)

RECURSIVE comment_lines(_, _)
\* every line behind the comment character and a space, ended by a line break
comment_lines(character, lines) ==
    IF Len(lines) = 0 THEN <<>>
    ELSE character \o <<SP>> \o lines[1] \o <<NL>> \o comment_lines(character, Tail(lines))

\* LineComment::new(character).set_trailing_lines(trailing_lines)
LineComment_new(character, trailing_lines) ==
    [character |-> character, trailing_lines |-> trailing_lines]

\* Comment::comment of LineComment
comment(commenter, text, columns) ==
    LET local_copy == IF columns = NoColumns THEN text ELSE fill(text, columns)
    IN  comment_lines(commenter.character, split(local_copy, <<NL>>))
            \o [i \in 1..commenter.trailing_lines |-> NL]

(***************************************************************************)
(* The regex crate, for the patterns build_year_varying_regex writes.      *)
(***************************************************************************)
BS == "\\"

\* regex_syntax::is_meta_character
is_meta_character(c) ==
    c \in {BS, ".", "+", "*", "?", "(", ")", "|", "[", "]", "{", "}", "^", "$",
           "#", "&", "-", "~"}

RECURSIVE regex_escape(_)
\* regex::escape: a backslash before every meta character
regex_escape(s) ==
    IF Len(s) = 0 THEN <<>>
    ELSE (IF is_meta_character(s[1]) THEN <<BS, s[1]>> ELSE <<s[1]>>)
            \o regex_escape(Tail(s))

\* the syntax of the regex crate for four decimal digits
FourDigits == <<"[", "0", "-", "9", "]", "{", "4", "}">>

RECURSIVE regex_parse(_, _)
\* Regex::new: the pattern from index i on as a sequence of one-character
\* matchers.  A backslash makes the next character a literal, [0-9]{4} is
\* four digits, an unescaped dot is any character but a line break, unescaped
\* parentheses group and match nothing themselves.
regex_parse(p, i) ==
    IF i > Len(p) THEN <<>>
    ELSE IF p[i] = BS /\ i < Len(p)
         THEN <<[k |-> "lit", c |-> p[i + 1]]>> \o regex_parse(p, i + 2)
    ELSE IF i + Len(FourDigits) - 1 <= Len(p) /\ SubSeq(p, i, i + Len(FourDigits) - 1) = FourDigits
         THEN [j \in 1..4 |-> [k |-> "digit", c |-> "0"]] \o regex_parse(p, i + Len(FourDigits))
    ELSE IF p[i] = "."
         THEN <<[k |-> "any", c |-> "."]>> \o regex_parse(p, i + 1)
    ELSE IF p[i] \in {"(", ")"}
         THEN regex_parse(p, i + 1)
    ELSE <<[k |-> "lit", c |-> p[i]]>> \o regex_parse(p, i + 1)

\* one matcher against one character
matches_char(m, c) ==
    CASE m.k = "lit" -> c = m.c
      [] m.k = "digit" -> c \in Digits
      [] OTHER -> c # NL

\* Regex::is_match: the pattern matches somewhere in text
is_match(p, text) ==
    LET ms == regex_parse(p, 1)
    IN  \E o \in 0..(Len(text) - Len(ms)) :
            \A j \in 1..Len(ms) : matches_char(ms[j], text[o + j])

(***************************************************************************)
(* The outdated-header patterns.                                           *)
(***************************************************************************)
RECURSIVE escape_all(_)
\* .map(|frag| regex::escape(frag))
escape_all(frags) ==
    IF Len(frags) = 0 THEN <<>>
    ELSE <<regex_escape(frags[1])>> \o escape_all(Tail(frags))

\* Template::build_year_varying_regex, up to the rendered comment it splits
year_varying_header(self, commenter, columns, trim_trailing) ==
    LET context == [self.context EXCEPT !.year = INTERMEDIATE_YEAR_TOKEN]
        interpolated_header == interpolate(self, context)
        rendered == comment(commenter, interpolated_header, columns)
    IN  IF trim_trailing THEN trim_end(rendered) ELSE rendered

\* the pattern with the fragments left unescaped
build_year_varying_regex_unescaped(self, commenter, columns, trim_trailing) ==
    join(split(year_varying_header(self, commenter, columns, trim_trailing),
               INTERMEDIATE_YEAR_TOKEN),
         YEAR_RE)

\* the pattern with the rendered comment split at every @
build_year_varying_regex_at(self, commenter, columns, trim_trailing) ==
    join(escape_all(split(year_varying_header(self, commenter, columns, trim_trailing),
                          <<"@">>)),
         YEAR_RE)

\* Template::build_year_varying_regex: the pattern given to Regex::new
build_year_varying_regex(self, commenter, columns, trim_trailing) ==
    join(escape_all(split(year_varying_header(self, commenter, columns, trim_trailing),
                          INTERMEDIATE_YEAR_TOKEN)),
         YEAR_RE)

\* Template::outdated_license_pattern
outdated_license_pattern(self, commenter, columns) ==
    build_year_varying_regex(self, commenter, columns, FALSE)

\* the trimmed pattern built without trimming
outdated_license_trimmed_pattern_untrimmed(self, commenter, columns) ==
    build_year_varying_regex(self, commenter, columns, FALSE)

\* Template::outdated_license_trimmed_pattern
outdated_license_trimmed_pattern(self, commenter, columns) ==
    build_year_varying_regex(self, commenter, columns, TRUE)

(***************************************************************************)
(* The inputs of the model.                                                *)
(***************************************************************************)
\* every sequence of at most n elements of S
SeqsUpTo(S, n) == UNION {[1..k -> S] : k \in 0..n}

\* the pieces header templates are written from
HeaderPieces ==
    { T_year,
      T_name_of_author,
      <<"(", "c", ")", ".", " ">>,
      <<"Y", "R", "@">>,
      INTERMEDIATE_YEAR_TOKEN }

HeaderContents == {concat(q) : q \in SeqsUpTo(HeaderPieces, MaxPieces)}

\* two paragraphs, the first wrapped over two lines: "A\nB\n\nC"
Paragraphs == <<"A", NL, "B", NL, NL, "C">>

\* the author placeholder inside the text of a year placeholder
NestedPlaceholder == <<"[", "y", "e">> \o T_name_of_author \o <<"a", "r", "]">>

\* the author placeholder wrapped over two lines
WrappedPlaceholder == <<"[", "n", "a", "m", "e", " ", "o", "f", NL, "a", "u", "t", "h", "o", "r", "]">>

\* the pieces license bodies are written from
BodyPieces ==
    { T_year, T_name_of_author, T_ident,
      T_yyyy, T_name_of_copyright_owner,
      T_spdx_year, T_copyright_holders, T_owner, T_spdx_name_of_author, T_spdx_ident,
      Paragraphs, <<NL>>, NestedPlaceholder, WrappedPlaceholder }

BodyContents == {concat(q) : q \in SeqsUpTo(BodyPieces, MaxBodyPieces)}

Y2020 == <<"2", "0", "2", "0">>
Y2022 == <<"2", "0", "2", "2">>

Mathew == [name |-> <<"M", "R">>, email |-> <<"m", "@", "x">>]

Robin == [name |-> <<"R", "o">>, email |-> NoEmail]

Ident == <<"t", "e", "s", "t">>

FileNames == {"a.rs", "b.rs"}

NoText == <<"-none-">>

NoResult == [kind |-> "none", files_not_licensed |-> <<>>]

Running == -1

VARIABLES
    template,        \* the Template: spdx_template, content, context
    commenter,       \* the comment style: character, trailing_lines
    columns,         \* the column width given to the commenter, or NoColumns
    written_year,    \* the year of the context the file's header was written with
    rendered,        \* what render() returned, or NoText
    file,            \* the text the patterns are tried on, or NoText
    origin,          \* how file came about: "none", "header", "trimmed", "altered"
    re,              \* the pattern of outdated_license_pattern, or NoText
    re_trimmed,      \* the pattern of outdated_license_trimmed_pattern, or NoText
    matched,         \* re.is_match(file): "none", TRUE or FALSE
    matched_trimmed, \* re_trimmed.is_match(file): "none", TRUE or FALSE
    pc,              \* the step of the template's user
    matches,         \* main: the parsed command line
    files,           \* main: the files to license
    config,          \* main: the loaded configuration, or "none"
    result,          \* main: what license_files returned, or NoResult
    exit_code,       \* main: the exit status of the process, or Running
    mpc,             \* main: the statement main is at
    headers,         \* batch: for each file, the header it holds when the batch starts
    tasks,           \* batch: for each file, the step its unit of work is at
    outcomes,        \* batch: for each file, the outcome computed for it
    changed,         \* batch: the files whose header was written in place
    files_not_licensed \* batch: the list of not licensed files, as collected so far

tvars == <<template, commenter, columns, written_year, rendered, file, origin,
           re, re_trimmed, matched, matched_trimmed, pc>>

mvars == <<matches, files, config, result, exit_code, mpc>>

bvars == <<headers, tasks, outcomes, changed, files_not_licensed>>

vars == <<tvars, mvars, bvars>>

\* the template user before its first step
TemplateIdle ==
    /\ commenter = LineComment_new(<<"#">>, 0)
    /\ columns = NoColumns
    /\ written_year = Y2020
    /\ rendered = NoText
    /\ file = NoText
    /\ origin = "none"
    /\ re = NoText
    /\ re_trimmed = NoText
    /\ matched = "none"
    /\ matched_trimmed = "none"
    /\ pc = "new"

\* no process running main
MainIdle ==
    /\ matches = [check |-> FALSE, in_place |-> FALSE, generate_config |-> FALSE,
                  project |-> FALSE, FILES |-> <<>>]
    /\ files = <<>>
    /\ config = "none"
    /\ result = NoResult
    /\ exit_code = Running
    /\ mpc = "idle"

(***************************************************************************)
(* Headers and the outdated patterns: a template, a comment style, the     *)
(* header written into a file some year, and the patterns tried on it.     *)
(***************************************************************************)
\* no batch of files being processed
BatchIdle ==
    /\ headers = [f \in FileNames |-> "current"]
    /\ tasks = [f \in FileNames |-> "none"]
    /\ outcomes = [f \in FileNames |-> "none"]
    /\ changed = {}
    /\ files_not_licensed = <<>>

\* the template as it was when the header of file was written
written_template == [template EXCEPT !.context.year = written_year]

HeaderInit ==
    /\ template \in {Template_new(c, [ident |-> Ident, authors |-> <<Mathew>>,
                                      year |-> Y2022, unwrap_text |-> TRUE]) :
                        c \in HeaderContents}
    /\ commenter \in {LineComment_new(<<"#">>, k) : k \in {0, 2}}
    /\ columns \in {NoColumns, 8}
    /\ written_year \in {Y2020, Y2022}
    /\ rendered = NoText
    /\ file = NoText
    /\ origin = "none"
    /\ re = NoText
    /\ re_trimmed = NoText
    /\ matched = "none"
    /\ matched_trimmed = "none"
    /\ pc = "new"
    /\ MainIdle
    /\ BatchIdle

\* let re = template.outdated_license_pattern(commenter, columns)
OutdatedLicensePattern ==
    /\ pc = "new"
    /\ re' = outdated_license_pattern(template, commenter, columns)
    /\ pc' = "pattern"
    /\ UNCHANGED <<template, commenter, columns, written_year, rendered, file,
                   origin, re_trimmed, matched, matched_trimmed>>
    /\ UNCHANGED <<mvars, bvars>>

\* let trimmed = template.outdated_license_trimmed_pattern(commenter, columns)
OutdatedLicenseTrimmedPattern ==
    /\ pc = "pattern"
    /\ re_trimmed' = outdated_license_trimmed_pattern(template, commenter, columns)
    /\ pc' = "patterns"
    /\ UNCHANGED <<template, commenter, columns, written_year, rendered, file,
                   origin, re, matched, matched_trimmed>>
    /\ UNCHANGED <<mvars, bvars>>

\* the header as it was written into the file: the template rendered with the
\* year of that time, commented
WriteHeader ==
    /\ pc = "patterns"
    /\ rendered' = render(written_template)
    /\ file' = comment(commenter, rendered', columns)
    /\ origin' = "header"
    /\ pc' = "file"
    /\ UNCHANGED <<template, commenter, columns, written_year, re, re_trimmed,
                   matched, matched_trimmed>>
    /\ UNCHANGED <<mvars, bvars>>

\* the file loses the white space that ends the header, or the trailing lines
\* of the comment style alone
TrimFile ==
    /\ pc = "file"
    /\ origin = "header"
    /\ \/ file' = trim_end(file)
       \/ /\ commenter.trailing_lines > 0
          /\ file' = SubSeq(file, 1, Len(file) - commenter.trailing_lines)
    /\ origin' = "trimmed"
    /\ UNCHANGED <<template, commenter, columns, written_year, rendered, re,
                   re_trimmed, matched, matched_trimmed, pc>>
    /\ UNCHANGED <<mvars, bvars>>

\* one character of the file is overwritten by an x, or deleted
AlterFile ==
    /\ pc = "file"
    /\ origin = "header"
    /\ \E i \in 1..Len(file) :
        \/ /\ file[i] # "x"
           /\ file' = [file EXCEPT ![i] = "x"]
        \/ file' = SubSeq(file, 1, i - 1) \o Tail_from(file, i + 1)
    /\ origin' = "altered"
    /\ UNCHANGED <<template, commenter, columns, written_year, rendered, re,
                   re_trimmed, matched, matched_trimmed, pc>>
    /\ UNCHANGED <<mvars, bvars>>

\* re.is_match(file)
IsMatch ==
    /\ pc = "file"
    /\ matched' = is_match(re, file)
    /\ pc' = "matched"
    /\ UNCHANGED <<template, commenter, columns, written_year, rendered, file,
                   origin, re, re_trimmed, matched_trimmed>>
    /\ UNCHANGED <<mvars, bvars>>

\* trimmed.is_match(file)
IsMatchTrimmed ==
    /\ pc = "matched"
    /\ matched_trimmed' = is_match(re_trimmed, file)
    /\ pc' = "done"
    /\ UNCHANGED <<template, commenter, columns, written_year, rendered, file,
                   origin, re, re_trimmed, matched>>
    /\ UNCHANGED <<mvars, bvars>>

Init == HeaderInit

Next ==
    \/ OutdatedLicensePattern
    \/ OutdatedLicenseTrimmedPattern
    \/ WriteHeader
    \/ TrimFile
    \/ AlterFile
    \/ IsMatch
    \/ IsMatchTrimmed

Spec == Init /\ [][Next]_vars

(***************************************************************************)
(* Properties of the outdated patterns, under Spec.                        *)
(***************************************************************************)
\* the first three characters of the intermediate year token
SentinelPrefix == SubSeq(INTERMEDIATE_YEAR_TOKEN, 1, 3)

\* a year of a digit that no template, author or identifier of the model holds
YearMark == <<"0", "0", "0", "0">>

\* the commented header with every substituted year marked
marked_header ==
    comment(commenter, interpolate(template, [template.context EXCEPT !.year = YearMark]),
            columns)

\* the positions of a header at which a substituted year stands
year_mask(h) == [i \in 1..Len(h) |-> h[i] = "0"]

\* the positions of the texts a pattern matches at which it takes any digit
wildcard_mask(p) == LET ms == regex_parse(p, 1) IN [i \in 1..Len(ms) |-> ms[i].k = "digit"]

RECURSIVE sentinel_mask(_, _)
\* the positions of s, from i on, that the occurrences of the intermediate
\* token cover, found from the left
sentinel_mask(s, i) ==
    IF i > Len(s) THEN <<>>
    ELSE IF i + 3 <= Len(s) /\ SubSeq(s, i, i + 3) = INTERMEDIATE_YEAR_TOKEN
         THEN <<TRUE, TRUE, TRUE, TRUE>> \o sentinel_mask(s, i + 4)
         ELSE <<FALSE>> \o sentinel_mask(s, i + 1)

\* text holds the header h with four digits at each masked place and every
\* other character as it is in h
header_occurs(text, h) ==
    LET mask == sentinel_mask(h, 1)
    IN  \E o \in 0..(Len(text) - Len(h)) :
            \A i \in 1..Len(h) :
                IF mask[i] THEN text[o + i] \in Digits ELSE text[o + i] = h[i]

\* C1, as claimed: for every template, the header written with any year is
\* matched by the outdated pattern of the template, whatever year its context
\* holds.
C1_RoundTripEveryTemplate ==
    (pc \in {"matched", "done"} /\ origin = "header") => matched = TRUE

\* C1, amended: the header written with any year is matched by the outdated
\* pattern, provided the header does not hold the characters @YR, the start of
\* the intermediate year token.
C1_RoundTrip ==
    (pc \in {"matched", "done"} /\ origin = "header"
        /\ ~contains(file, SentinelPrefix)) => matched = TRUE

\* a wrapped header of a year other than the context's, matched
C1_Witness ==
    /\ pc = "matched"
    /\ origin = "header"
    /\ written_year # template.context.year
    /\ contains(template.content, T_year)
    /\ columns # NoColumns
    /\ Len(split(file, <<NL>>)) > 2
    /\ ~contains(file, SentinelPrefix)
    /\ matched = TRUE

\* C2, as claimed: with k > 0 trailing lines the outdated pattern matches the
\* header with its trailing lines and not the header without them; the
\* trimmed pattern matches the header without them, and every text the
\* outdated pattern matches.
C2_TrimVariantEveryTemplate ==
    /\ (commenter.trailing_lines > 0 /\ pc \in {"matched", "done"} /\ origin = "header")
            => matched = TRUE
    /\ (commenter.trailing_lines > 0 /\ pc \in {"matched", "done"} /\ origin = "trimmed")
            => matched = FALSE
    /\ (commenter.trailing_lines > 0 /\ pc = "done" /\ origin = "trimmed")
            => matched_trimmed = TRUE
    /\ (pc = "done" /\ matched = TRUE) => matched_trimmed = TRUE

\* C2, amended: the same, the two matches being promised only of a header that
\* does not hold the characters @YR.
C2_TrimVariant ==
    /\ (commenter.trailing_lines > 0 /\ pc \in {"matched", "done"} /\ origin = "header"
            /\ ~contains(file, SentinelPrefix))
            => matched = TRUE
    /\ (commenter.trailing_lines > 0 /\ pc \in {"matched", "done"} /\ origin = "trimmed")
            => matched = FALSE
    /\ (commenter.trailing_lines > 0 /\ pc = "done" /\ origin = "trimmed"
            /\ ~contains(file, SentinelPrefix))
            => matched_trimmed = TRUE
    /\ (pc = "done" /\ matched = TRUE) => matched_trimmed = TRUE

\* a header without its two trailing lines: only the trimmed pattern matches
C2_Witness ==
    /\ commenter.trailing_lines = 2
    /\ pc = "done"
    /\ origin = "trimmed"
    /\ contains(template.content, T_year)
    /\ matched = FALSE
    /\ matched_trimmed = TRUE

\* C8: a pattern matches a text exactly when the text holds the commented
\* header with four digits in place of each occurrence of the intermediate
\* token and every other character unchanged; a header with a character
\* overwritten or deleted is not matched.
C8_OnlyYearIsWildcard ==
    /\ pc \in {"matched", "done"}
        => matched = header_occurs(file, year_varying_header(template, commenter, columns, FALSE))
    /\ pc = "done"
        => matched_trimmed = header_occurs(file, year_varying_header(template, commenter, columns, TRUE))
    /\ (pc \in {"matched", "done"} /\ origin = "altered") => matched = FALSE

\* a header whose parenthesis or full stop was overwritten is not matched
C8_Witness ==
    /\ pc = "done"
    /\ origin = "altered"
    /\ matched = FALSE
    /\ LET h == year_varying_header(template, commenter, columns, FALSE)
       IN  /\ Len(file) = Len(h)
           /\ contains(h, INTERMEDIATE_YEAR_TOKEN)
           /\ \E i \in 1..Len(h) : h[i] \in {"(", ")", "."} /\ file[i] = "x"

\* C9, as claimed: for every template the patterns take any digit exactly at
\* the places of the substituted years.
C9_WildcardOnlyAtYearEveryTemplate ==
    /\ pc = "pattern" => wildcard_mask(re) = year_mask(marked_header)
    /\ pc = "patterns" => wildcard_mask(re_trimmed) = year_mask(trim_end(marked_header))

\* C9, amended: the patterns take any digit exactly at the places of the
\* substituted years, provided the header's own text does not hold the
\* characters @YR.
C9_WildcardOnlyAtYear ==
    ~contains(marked_header, SentinelPrefix) =>
        /\ pc = "pattern" => wildcard_mask(re) = year_mask(marked_header)
        /\ pc = "patterns" => wildcard_mask(re_trimmed) = year_mask(trim_end(marked_header))

\* a pattern of one year before an author whose address holds an @
C9_Witness ==
    /\ pc = "pattern"
    /\ ~contains(marked_header, SentinelPrefix)
    /\ template.content = T_year \o T_name_of_author
    /\ contains(marked_header, <<"@">>)
    /\ Len(split(re, YEAR_RE)) = 2

(***************************************************************************)
(* Rendering: a license body, set up as a template and rendered.           *)
(***************************************************************************)
RenderInit ==
    /\ template \in {Template_new(c, [ident |-> Ident, authors |-> a,
                                      year |-> y, unwrap_text |-> u]) :
                        c \in BodyContents, a \in {<<>>, <<Mathew>>, <<Robin>>},
                        y \in {Y2020, NoYear}, u \in BOOLEAN}
    /\ TemplateIdle
    /\ MainIdle
    /\ BatchIdle

\* let template = template.set_spdx_template(yes_or_no)
SetSpdxTemplate ==
    /\ pc = "new"
    /\ \E yes_or_no \in BOOLEAN : template' = set_spdx_template(template, yes_or_no)
    /\ pc' = "built"
    /\ UNCHANGED <<commenter, columns, written_year, rendered, file, origin, re,
                   re_trimmed, matched, matched_trimmed>>
    /\ UNCHANGED <<mvars, bvars>>

\* template.render()
Render ==
    /\ pc \in {"new", "built"}
    /\ rendered' = render(template)
    /\ pc' = "rendered"
    /\ UNCHANGED <<template, commenter, columns, written_year, file, origin, re,
                   re_trimmed, matched, matched_trimmed>>
    /\ UNCHANGED <<mvars, bvars>>

RenderNext == SetSpdxTemplate \/ Render

RenderSpec == RenderInit /\ [][RenderNext]_vars

(***************************************************************************)
(* Properties of rendering, under RenderSpec.                              *)
(***************************************************************************)
\* the three substitutions of interpolate, applied to text
substitute(self, text) ==
    LET tokens == replacement_tokens(self)
    IN  replace(replace(replace(text, tokens[1], get_year(self.context)),
                        tokens[2], get_authors(self.context)),
                tokens[3], self.context.ident)

\* the values render() substitutes: year, authors, ident
values(self) == <<get_year(self.context), get_authors(self.context), self.context.ident>>

\* text holds none of the selected tokens
token_free(self, text) ==
    LET tokens == replacement_tokens(self)
    IN  \A k \in 1..3 : ~contains(text, tokens[k])

\* tok stands in text at place i
token_at(text, i, tok) ==
    /\ i + Len(tok) - 1 <= Len(text)
    /\ \A j \in 1..Len(tok) : text[i + j - 1] = tok[j]

RECURSIVE substitute_at(_, _, _, _)
\* text from i on, each token that starts at a place of text replaced by its
\* value, in one pass from the left
substitute_at(text, i, tokens, vals) ==
    IF i > Len(text) THEN <<>>
    ELSE IF \E k \in 1..3 : token_at(text, i, tokens[k])
         THEN LET k == CHOOSE k \in 1..3 : token_at(text, i, tokens[k])
              IN  vals[k] \o substitute_at(text, i + Len(tokens[k]), tokens, vals)
         ELSE <<text[i]>> \o substitute_at(text, i + 1, tokens, vals)

\* the two characters that delimit the selected tokens
delimiters(self) ==
    LET t == replacement_tokens(self)[1] IN {t[1], t[Len(t)]}

\* no value is empty, holds a delimiter of the selected tokens or is part of one
clean_values(self) ==
    LET tokens == replacement_tokens(self)
        vals == values(self)
        marks == delimiters(self)
    IN  \A j \in 1..3 :
            /\ Len(vals[j]) > 0
            /\ \A i \in 1..Len(vals[j]) : vals[j][i] \notin marks
            /\ \A k \in 1..3 : ~contains(tokens[k], vals[j])

C5_ReflowGatedByUnwrapText ==
    pc = "rendered" =>
        rendered = IF template.context.unwrap_text
                   THEN substitute(template, remove_column_wrapping(template.content))
                   ELSE substitute(template, template.content)

\* the content of the template, reflowed, with the tokens t replaced
substitute_with(t) ==
    replace(replace(replace(nowrap_header_text(template), t[1], get_year(template.context)),
                    t[2], get_authors(template.context)),
            t[3], template.context.ident)

\* C6: the tokens selected: the bracket triple unless the template is SPDX;
\* the Apache triple when the SPDX content holds [name of copyright owner];
\* else <year>, <ident> and the first of <copyright holders>, <owner> that the
\* content holds, <name of author> when it holds neither.
C6_TokenSelection ==
    LET t == replacement_tokens(template)
        c == template.content
        apache == contains(c, T_name_of_copyright_owner)
        holders == contains(c, T_copyright_holders)
        owner == contains(c, T_owner)
    IN  /\ ~template.spdx_template => t = <<T_year, T_name_of_author, T_ident>>
        /\ (template.spdx_template /\ apache)
                => t = <<T_yyyy, T_name_of_copyright_owner, T_ident>>
        /\ (template.spdx_template /\ ~apache) =>
                /\ t[1] = T_spdx_year
                /\ t[3] = T_spdx_ident
                /\ holders => t[2] = T_copyright_holders
                /\ (~holders /\ owner) => t[2] = T_owner
                /\ (~holders /\ ~owner) => t[2] = T_spdx_name_of_author
        /\ pc = "rendered" => rendered = substitute_with(t)

\* an SPDX template that holds <owner> and <copyright holders>, rendered
C6_Witness ==
    /\ pc = "rendered"
    /\ template.spdx_template
    /\ contains(template.content, T_owner)
    /\ contains(template.content, T_copyright_holders)
    /\ ~contains(rendered, T_copyright_holders)
    /\ contains(rendered, T_owner)

\* C7, as claimed: when no substituted value holds a token, the rendered text
\* holds none of the selected tokens; a template that holds none of them is
\* returned reflowed and otherwise unchanged.  Stated of the templates with
\* unwrap_text set, whose content is to be reflowed.
C7_ReplaceAllEveryValue ==
    (pc = "rendered" /\ template.context.unwrap_text) =>
        /\ token_free(template, concat(values(template)))
                => token_free(template, rendered)
        /\ token_free(template, template.content)
                => rendered = nowrap_header_text(template)

\* C7, amended: when no substituted value is empty, holds a delimiter of the
\* selected tokens or is part of one, every occurrence of a selected token in
\* the reflowed content is replaced by its value and the rendered text holds
\* none of the selected tokens; a template whose reflowed content holds none
\* of them is returned as that reflowed content.
C7_ReplaceAll ==
    pc = "rendered" =>
        LET reflowed == nowrap_header_text(template)
        IN  /\ clean_values(template) =>
                    /\ token_free(template, rendered)
                    /\ rendered = substitute_at(reflowed, 1, replacement_tokens(template),
                                                values(template))
            /\ token_free(template, reflowed) => rendered = reflowed

\* a token that stands twice in the content, both replaced
C7_Witness ==
    /\ pc = "rendered"
    /\ clean_values(template)
    /\ template.content = T_year \o T_year
    /\ rendered = Y2020 \o Y2020

(***************************************************************************)
(* main: the command line driver.                                          *)
(***************************************************************************)
Range(q) == {q[i] : i \in 1..Len(q)}

\* what Licensure::license_files(&files) may return: an error, or the list of
\* the files that were not licensed
license_files(fs) ==
    {[kind |-> "err", files_not_licensed |-> <<>>]}
        \cup {[kind |-> "ok", files_not_licensed |-> l] : l \in SeqsUpTo(Range(fs), MaxFiles)}

\* the exit decision without the test of --check
exit_on_result_any_list(check, r) ==
    IF r.kind = "err" THEN 1
    ELSE IF Len(r.files_not_licensed) # 0 THEN 1
    ELSE Running

\* the match on the result of license_files in main: the status the process
\* exits with there, or Running when main goes on to its end
exit_on_result(check, r) ==
    IF r.kind = "err" THEN 1
    ELSE IF check /\ Len(r.files_not_licensed) # 0 THEN 1
    ELSE Running

MainInit ==
    /\ matches \in [check : BOOLEAN, in_place : BOOLEAN, generate_config : BOOLEAN,
                    project : BOOLEAN, FILES : SeqsUpTo(FileNames, MaxFiles)]
    /\ files = <<>>
    /\ config = "none"
    /\ result = NoResult
    /\ exit_code = Running
    /\ mpc = "parsed"
    /\ template = Template_new(T_year, [ident |-> Ident, authors |-> <<Mathew>>,
                                        year |-> Y2022, unwrap_text |-> TRUE])
    /\ TemplateIdle
    /\ BatchIdle

\* if matches.is_present("generate-config"): .licensure.yml is created and
\* written, and the process exits
GenerateConfig ==
    /\ mpc = "parsed"
    /\ matches.generate_config
    /\ \E written \in BOOLEAN : exit_code' = IF written THEN 0 ELSE 1
    /\ mpc' = "exited"
    /\ UNCHANGED <<matches, files, config, result>>
    /\ UNCHANGED <<tvars, bvars>>

\* let files = ...: git ls-files with --project, the FILES arguments otherwise
CollectFiles ==
    /\ mpc = "parsed"
    /\ ~matches.generate_config
    /\ IF matches.project
       THEN \/ /\ files' \in SeqsUpTo(FileNames, MaxFiles)
               /\ mpc' = "files"
               /\ UNCHANGED exit_code
            \/ /\ exit_code' = 1
               /\ mpc' = "exited"
               /\ UNCHANGED files
       ELSE IF Len(matches.FILES) = 0
            THEN /\ exit_code' = 101
                 /\ mpc' = "exited"
                 /\ UNCHANGED files
            ELSE /\ files' = matches.FILES
                 /\ mpc' = "files"
                 /\ UNCHANGED exit_code
    /\ UNCHANGED <<matches, config, result>>
    /\ UNCHANGED <<tvars, bvars>>

\* let mut config = match config::load_config(), and the two options that
\* change it
LoadConfig ==
    /\ mpc = "files"
    /\ \/ /\ \E change_in_place \in BOOLEAN :
                config' = [change_in_place |-> change_in_place \/ matches.in_place]
          /\ mpc' = "config"
          /\ UNCHANGED exit_code
       \/ /\ exit_code' = 1
          /\ mpc' = "exited"
          /\ UNCHANGED config
    /\ UNCHANGED <<matches, files, result>>
    /\ UNCHANGED <<tvars, bvars>>

\* Licensure::new(config).license_files(&files).await
LicenseFiles ==
    /\ mpc = "config"
    /\ result' \in license_files(files)
    /\ mpc' = "returned"
    /\ UNCHANGED <<matches, files, config, exit_code>>
    /\ UNCHANGED <<tvars, bvars>>

\* the match on what license_files returned
MatchResult ==
    /\ mpc = "returned"
    /\ exit_code' = exit_on_result(matches.check, result)
    /\ mpc' = IF exit_code' = Running THEN "end" ELSE "exited"
    /\ UNCHANGED <<matches, files, config, result>>
    /\ UNCHANGED <<tvars, bvars>>

\* block_on(done) returns and main ends
MainReturns ==
    /\ mpc = "end"
    /\ exit_code' = 0
    /\ mpc' = "exited"
    /\ UNCHANGED <<matches, files, config, result>>
    /\ UNCHANGED <<tvars, bvars>>

MainNext ==
    \/ GenerateConfig
    \/ CollectFiles
    \/ LoadConfig
    \/ LicenseFiles
    \/ MatchResult
    \/ MainReturns

MainSpec == MainInit /\ [][MainNext]_vars

(***************************************************************************)
(* Properties of main, under MainSpec.                                     *)
(***************************************************************************)
\* C10: once license_files has returned, the process exits with a failure
\* exactly when it returned an error, or --check was given and the returned
\* list is not empty; it exits with 0 otherwise.
C10_CheckModeExit ==
    (mpc = "exited" /\ result.kind # "none") =>
        /\ exit_code \in {0, 1}
        /\ exit_code = 1 <=>
            \/ result.kind = "err"
            \/ (matches.check /\ Len(result.files_not_licensed) > 0)

\* --check with a file that was not licensed: the process exits with 1
C10_Witness ==
    /\ mpc = "exited"
    /\ result.kind = "ok"
    /\ matches.check
    /\ Len(result.files_not_licensed) > 0
    /\ exit_code = 1

(***************************************************************************)
(* license_files: the batch of files, one unit of work for each file, the  *)
(* units interleaved in any order.                                         *)
(***************************************************************************)
\* the headers a file may hold: the current one, one of another year, none
HeaderStates == {"current", "outdated", "missing"}

\* the files of the batch: one unit of work for each file, however often its
\* path was given
units(fs) == Range(fs)

\* the outcome computed for a file from the header it holds
outcome_of(header) ==
    CASE header = "current" -> "current"
      [] header = "outdated" -> "replaced"
      [] OTHER -> "inserted"

\* a collection that keeps only the file of the unit that collects last
collect_last(list, f, outcome) ==
    IF outcome # "current" THEN <<f>> ELSE list

\* collecting the outcome of one unit into the list of not licensed files
collect(list, f, outcome) ==
    IF outcome # "current" THEN Append(list, f) ELSE list

BatchInit ==
    /\ \E fs \in SeqsUpTo(FileNames, MaxFiles) \ {<<>>} :
        /\ matches \in [check : BOOLEAN, in_place : {FALSE}, generate_config : {FALSE},
                        project : {FALSE}, FILES : {fs}]
        /\ files = fs
    /\ config \in [change_in_place : BOOLEAN]
    /\ result = NoResult
    /\ exit_code = Running
    /\ mpc = "config"
    /\ headers \in [FileNames -> HeaderStates]
    /\ tasks = [f \in FileNames |-> "none"]
    /\ outcomes = [f \in FileNames |-> "none"]
    /\ changed = {}
    /\ files_not_licensed = <<>>
    /\ template = Template_new(T_year, [ident |-> Ident, authors |-> <<Mathew>>,
                                        year |-> Y2022, unwrap_text |-> TRUE])
    /\ TemplateIdle

\* license_files(&files) is called: a unit of work for each file
StartBatch ==
    /\ mpc = "config"
    /\ tasks' = [f \in FileNames |-> IF f \in units(files) THEN "pending" ELSE "none"]
    /\ mpc' = "batch"
    /\ UNCHANGED <<matches, files, config, result, exit_code>>
    /\ UNCHANGED <<headers, outcomes, changed, files_not_licensed>>
    /\ UNCHANGED tvars

\* the unit of f reads the file and computes its outcome, or fails to read it
DetectHeader(f) ==
    /\ mpc = "batch"
    /\ tasks[f] = "pending"
    /\ \/ /\ outcomes' = [outcomes EXCEPT ![f] = outcome_of(headers[f])]
          /\ tasks' = [tasks EXCEPT ![f] = "decided"]
       \/ /\ tasks' = [tasks EXCEPT ![f] = "failed"]
          /\ UNCHANGED outcomes
    /\ UNCHANGED <<headers, changed, files_not_licensed>>
    /\ UNCHANGED mvars
    /\ UNCHANGED tvars

\* the unit of f writes the header into its file, when change_in_place is set
\* and the header is not the current one
WriteFile(f) ==
    /\ mpc = "batch"
    /\ tasks[f] = "decided"
    /\ config.change_in_place
    /\ outcomes[f] # "current"
    /\ changed' = changed \cup {f}
    /\ tasks' = [tasks EXCEPT ![f] = "written"]
    /\ UNCHANGED <<headers, outcomes, files_not_licensed>>
    /\ UNCHANGED mvars
    /\ UNCHANGED tvars

\* the unit of f completes: its outcome is collected
CollectOutcome(f) ==
    /\ mpc = "batch"
    /\ \/ tasks[f] = "written"
       \/ tasks[f] = "decided" /\ (outcomes[f] = "current" \/ ~config.change_in_place)
    /\ files_not_licensed' = collect(files_not_licensed, f, outcomes[f])
    /\ tasks' = [tasks EXCEPT ![f] = "done"]
    /\ UNCHANGED <<headers, outcomes, changed>>
    /\ UNCHANGED mvars
    /\ UNCHANGED tvars

\* every unit is over: license_files returns the list, or the error of a unit
ReturnList ==
    /\ mpc = "batch"
    /\ \A f \in units(files) : tasks[f] \in {"done", "failed"}
    /\ result' = IF \E f \in units(files) : tasks[f] = "failed"
                 THEN [kind |-> "err", files_not_licensed |-> <<>>]
                 ELSE [kind |-> "ok", files_not_licensed |-> files_not_licensed]
    /\ mpc' = "returned"
    /\ UNCHANGED <<matches, files, config, exit_code>>
    /\ UNCHANGED bvars
    /\ UNCHANGED tvars

BatchNext ==
    \/ StartBatch
    \/ \E f \in FileNames : DetectHeader(f)
    \/ \E f \in FileNames : WriteFile(f)
    \/ \E f \in FileNames : CollectOutcome(f)
    \/ ReturnList
    \/ MatchResult
    \/ MainReturns

BatchSpec == BatchInit /\ [][BatchNext]_vars

(***************************************************************************)
(* Properties of the batch, under BatchSpec.                               *)
(***************************************************************************)
\* how often f stands in list
occurrences(list, f) == Cardinality({i \in 1..Len(list) : list[i] = f})

Holders ==
    [name : {<<>>, <<"A">>, <<"B", "o">>}, email : {NoEmail, <<"e", "@", "x">>}]

AuthorsInit ==
    /\ template \in {Template_new(T_name_of_author,
                                  [ident |-> Ident, authors |-> a, year |-> Y2020,
                                   unwrap_text |-> TRUE]) :
                        a \in SeqsUpTo(Holders, MaxAuthors)}
    /\ TemplateIdle
    /\ MainIdle
    /\ BatchIdle

\* context.get_authors(): the author list is displayed
GetAuthors ==
    /\ pc = "new"
    /\ rendered' = get_authors(template.context)
    /\ pc' = "authors"
    /\ UNCHANGED <<template, commenter, columns, written_year, file, origin, re,
                   re_trimmed, matched, matched_trimmed>>
    /\ UNCHANGED <<mvars, bvars>>

\* template.render() of the template "[name of author]"
RenderAuthors ==
    /\ pc = "authors"
    /\ rendered' = render(template)
    /\ pc' = "rendered"
    /\ UNCHANGED <<template, commenter, columns, written_year, file, origin, re,
                   re_trimmed, matched, matched_trimmed>>
    /\ UNCHANGED <<mvars, bvars>>

AuthorsNext == GetAuthors \/ RenderAuthors

AuthorsSpec == AuthorsInit /\ [][AuthorsNext]_vars

(***************************************************************************)
(* Properties of the display forms, under AuthorsSpec.                     *)
(***************************************************************************)
\* the display form a holder is to have: name, or name <email>
holder_form(h) ==
    IF h.email = NoEmail THEN h.name
    ELSE h.name \o <<SP, "<">> \o h.email \o <<">">>

\* the display forms of the holders of a list, in list order
holder_forms(authors) == [i \in 1..Len(authors) |-> holder_form(authors[i])]

\* C12: a holder displays as its name, or as name <email> when it has an
\* email; an author list displays as the display forms of its holders, in
\* list order, joined by ", "; the empty list displays as the empty string.
C12_AuthorFormatting ==
    pc \in {"authors", "rendered"} =>
        LET authors == template.context.authors
        IN  /\ \A i \in 1..Len(authors) :
                CopyrightHolder_to_string(authors[i]) = holder_form(authors[i])
            /\ rendered = join(holder_forms(authors), <<",", SP>>)
            /\ Len(authors) = 0 => rendered = <<>>

====
